---------------------------- MODULE Spec2Model ----------------------------
(***************************************************************************)
(* A model of calc_metrics.py: the Ratio Aggregator (metricJobsBy), the    *)
(* Rollup Aggregator (metricEstimatesProjections), the Merge Step          *)
(* (mergeMetricDataframes) and the run of main up to the Publish Step.     *)
(*                                                                         *)
(* Representation.                                                         *)
(*  - A string is a TLA+ string; slices are SubSeq, as in Python.          *)
(*  - A number is a pair <<n, d>>: the rational n/d in lowest terms when   *)
(*    d > 0, and the IEEE special values when d = 0 (<<0,0>> is NaN, which *)
(*    is also pandas' null; <<1,0>> and <<-1,0>> are +inf and -inf).       *)
(*    Floating-point rounding is not modelled: arithmetic is exact.        *)
(*  - A DataFrame is a record [index, columns, rows]: index is the name of *)
(*    the index ("" for an unnamed index), columns the sequence of column  *)
(*    labels, rows a sequence of functions from the labels (and the index  *)
(*    name, when named "geoname") to values.                               *)
(***************************************************************************)
EXTENDS Integers, Sequences, FiniteSets, TLC

-----------------------------------------------------------------------------
(* Bounds of the model *)

MaxRows == 2

-----------------------------------------------------------------------------
(* Sequences *)

Range(s) == {s[i] : i \in 1..Len(s)}

RECURSIVE IndexOf(_, _, _)
IndexOf(s, x, i) ==
    IF i > Len(s) THEN 0 ELSE IF s[i] = x THEN i ELSE IndexOf(s, x, i + 1)

RECURSIVE Flatten(_)
Flatten(ss) == IF ss = <<>> THEN <<>> ELSE Head(ss) \o Flatten(Tail(ss))

-----------------------------------------------------------------------------
(* Characters and strings: str.title(), re.match, and the order of strings *)

LowerCase == "abcdefghijklmnopqrstuvwxyz"
UpperCase == "ABCDEFGHIJKLMNOPQRSTUVWXYZ"
Digits == "0123456789"
\* the characters the model uses, in code-point order
CodePoints == " 0123456789ABCDEFGHIJKLMNOPQRSTUVWXYZ_abcdefghijklmnopqrstuvwxyz"

RECURSIVE PosIn(_, _, _)
\* the position of the one-character string c in s at or after i, 0 if none
PosIn(c, s, i) ==
    IF i > Len(s) THEN 0
    ELSE IF SubSeq(s, i, i) = c THEN i ELSE PosIn(c, s, i + 1)

LowerChars == {SubSeq(LowerCase, i, i) : i \in 1..Len(LowerCase)}
UpperChars == {SubSeq(UpperCase, i, i) : i \in 1..Len(UpperCase)}

\* str.upper() and str.lower() of one cased character
UpperOf == [c \in LowerChars |-> SubSeq(UpperCase, PosIn(c, LowerCase, 1),
                                         PosIn(c, LowerCase, 1))]
LowerOf == [c \in UpperChars |-> SubSeq(LowerCase, PosIn(c, UpperCase, 1),
                                         PosIn(c, UpperCase, 1))]

\* the code point order of the characters of CodePoints
CodeOf == [c \in {SubSeq(CodePoints, i, i) : i \in 1..Len(CodePoints)} |->
              PosIn(c, CodePoints, 1)]

IsCased(c) == c \in LowerChars \/ c \in UpperChars
IsDigit(c) == PosIn(c, Digits, 1) > 0

ToUpper(c) == IF c \in LowerChars THEN UpperOf[c] ELSE c

ToLower(c) == IF c \in UpperChars THEN LowerOf[c] ELSE c

RECURSIVE TitleFrom(_, _, _)
\* s[i..] title-cased, prevCased telling whether s[i-1] is a cased character
TitleFrom(s, i, prevCased) ==
    IF i > Len(s) THEN ""
    ELSE LET c == SubSeq(s, i, i) IN
         (IF prevCased THEN ToLower(c) ELSE ToUpper(c))
            \o TitleFrom(s, i + 1, IsCased(c))

\* Python's str.title(): a cased character is upper-cased when it follows an
\* uncased one (or starts the string) and lower-cased otherwise
Title(s) == TitleFrom(s, 1, FALSE)

RECURSIVE StrLess(_, _)
\* a < b as Python compares strings (by code point, a proper prefix first)
StrLess(a, b) ==
    IF Len(b) = 0 THEN FALSE
    ELSE IF Len(a) = 0 THEN TRUE
    ELSE LET ca == CodeOf[SubSeq(a, 1, 1)]
             cb == CodeOf[SubSeq(b, 1, 1)]
         IN IF ca # cb THEN ca < cb
            ELSE StrLess(SubSeq(a, 2, Len(a)), SubSeq(b, 2, Len(b)))

RECURSIVE SortStrings(_)
\* the strings of a finite set, ascending
SortStrings(S) ==
    IF S = {} THEN <<>>
    ELSE LET m == CHOOSE x \in S : \A y \in S \ {x} : StrLess(x, y)
         IN <<m>> \o SortStrings(S \ {m})

RECURSIVE AllDigits(_)
AllDigits(s) ==
    Len(s) = 0 \/ (IsDigit(SubSeq(s, 1, 1)) /\ AllDigits(SubSeq(s, 2, Len(s))))

\* A field pattern "^<prefix>[0-9]{<digits>}$" is the record [prefix, digits]
ReMatch(pattern, name) ==
    /\ Len(name) = Len(pattern.prefix) + pattern.digits
    /\ SubSeq(name, 1, Len(pattern.prefix)) = pattern.prefix
    /\ AllDigits(SubSeq(name, Len(pattern.prefix) + 1, Len(name)))

\* Python's s[-n:]
LastChars(s, n) == IF Len(s) <= n THEN s ELSE SubSeq(s, Len(s) - n + 1, Len(s))

-----------------------------------------------------------------------------
(* Numbers *)

Abs(n) == IF n < 0 THEN -n ELSE n

RECURSIVE GCD(_, _)
GCD(a, b) == IF b = 0 THEN a ELSE GCD(b, a % b)

\* n/d in lowest terms, for d # 0
Norm(n, d) ==
    LET s == IF d < 0 THEN -1 ELSE 1
        g == GCD(Abs(n), Abs(d))
    IN <<(s * n) \div g, Abs(d) \div g>>

Q(n) == <<n, 1>>
NaN == <<0, 0>>
Inf == <<1, 0>>
NegInf == <<-1, 0>>
Null == NaN

IsFinite(a) == a[2] # 0
Sign(n) == IF n > 0 THEN 1 ELSE IF n < 0 THEN -1 ELSE 0

QAdd(a, b) ==
    IF a = NaN \/ b = NaN THEN NaN
    ELSE IF ~IsFinite(a) THEN (IF ~IsFinite(b) /\ a # b THEN NaN ELSE a)
    ELSE IF ~IsFinite(b) THEN b
    ELSE Norm(a[1] * b[2] + b[1] * a[2], a[2] * b[2])

QMul(a, b) ==
    IF a = NaN \/ b = NaN THEN NaN
    ELSE IF ~IsFinite(a) \/ ~IsFinite(b)
         THEN (IF Sign(a[1]) * Sign(b[1]) = 0 THEN NaN
               ELSE <<Sign(a[1]) * Sign(b[1]), 0>>)
    ELSE Norm(a[1] * b[1], a[2] * b[2])

\* numpy's true division: x/0 is nan for x = 0 and +-inf otherwise (a warning,
\* not an exception)
QDiv(a, b) ==
    IF a = NaN \/ b = NaN THEN NaN
    ELSE IF ~IsFinite(b) THEN (IF IsFinite(a) THEN Q(0) ELSE NaN)
    ELSE IF ~IsFinite(a) THEN (IF b[1] < 0 THEN <<-a[1], 0>> ELSE a)
    ELSE IF b[1] = 0 THEN <<Sign(a[1]), 0>>
    ELSE Norm(a[1] * b[2], a[2] * b[1])

RECURSIVE SumSkipNa(_)
\* pandas' sum() of a sequence (skipna=True, min_count=0): NaN is skipped and
\* the sum of nothing is 0
SumSkipNa(vs) ==
    IF vs = <<>> THEN Q(0)
    ELSE IF Head(vs) = NaN THEN SumSkipNa(Tail(vs))
    ELSE QAdd(Head(vs), SumSkipNa(Tail(vs)))

RECURSIVE SumInts(_)
SumInts(ns) == IF ns = <<>> THEN 0 ELSE Head(ns) + SumInts(Tail(ns))

-----------------------------------------------------------------------------
(* DataFrames *)

\* pd.DataFrame()
EmptyFrame == [index |-> "", columns |-> <<>>, rows |-> <<>>]

\* DataFrame.empty: some axis has length 0 (the index is not a column)
IsEmpty(df) == Len(df.rows) = 0 \/ Len(df.columns) = 0

\* the labels a row of df carries
Labels(df) ==
    Range(df.columns) \cup (IF df.index = "geoname" THEN {"geoname"} ELSE {})

\* df[flds]
SelectColumns(df, flds) ==
    [index |-> df.index,
     columns |-> flds,
     rows |-> [i \in 1..Len(df.rows) |-> [c \in Range(flds) |-> df.rows[i][c]]]]

\* pd.DataFrame(data, columns=columns) for a list of equally long lists
FrameOfLists(data, columns) ==
    [index |-> "",
     columns |-> columns,
     rows |-> [i \in 1..Len(data) |->
                 [c \in Range(columns) |-> data[i][IndexOf(columns, c, 1)]]]]

\* the column as it would be left without the title-casing
TitleColumnKept(df, col) == df

\* df[col] = df[col].str.title()
TitleColumn(df, col) ==
    [df EXCEPT !.rows =
        [i \in 1..Len(df.rows) |-> [df.rows[i] EXCEPT ![col] = Title(@)]]]

\* the rows of a sequence whose label col holds value v, in order
RowsWhere(rows, col, v) == SelectSeq(rows, LAMBDA r : r[col] = v)

\* df.groupby("geoname").sum(): one row per distinct geoname, in ascending
\* order of geoname, every other column summed; geoname becomes the index
GroupBySum(df) ==
    LET keys == SortStrings({df.rows[i]["geoname"] : i \in 1..Len(df.rows)})
        cols == SelectSeq(df.columns, LAMBDA c : c # "geoname")
        grp(k) == RowsWhere(df.rows, "geoname", k)
    IN [index |-> "geoname",
        columns |-> cols,
        rows |-> [n \in 1..Len(keys) |->
                    [c \in Range(cols) \cup {"geoname"} |->
                        IF c = "geoname" THEN keys[n]
                        ELSE SumSkipNa([j \in 1..Len(grp(keys[n])) |->
                                            grp(keys[n])[j][c]])]]]

\* pd.concat(frames) of frames with the same columns, for a non-empty list: the
\* index keeps its name when every frame's index has that name
Concat(frames) ==
    [index |-> IF \A i \in 1..Len(frames) : frames[i].index = frames[1].index
               THEN frames[1].index ELSE "",
     columns |-> frames[1].columns,
     rows |-> Flatten([i \in 1..Len(frames) |-> frames[i].rows])]

-----------------------------------------------------------------------------
(* metricJobsBy: the Ratio Aggregator *)

RECURSIVE AppendNew(_, _)
\* for fld in more: if fld not in flds: flds.append(fld)
AppendNew(flds, more) ==
    IF more = <<>> THEN flds
    ELSE AppendNew(IF Head(more) \in Range(flds) THEN flds
                   ELSE Append(flds, Head(more)), Tail(more))

QueryFields(input) ==
    Flatten([a \in 1..Len(input.geogAreas) |-> input.geogAreas[a].queryFields])

\* [i for i in ato_df.columns if re.match(pattern, i)]
MatchingColumns(df, pattern) ==
    SelectSeq(df.columns, LAMBDA c : ReMatch(pattern, c))

df_flds(df, input) ==
    AppendNew(input.geogFields, QueryFields(input))
        \o MatchingColumns(df, input.keyFieldPattern)
        \o MatchingColumns(df, input.weightedFieldPattern)

\* the output names as they would be if suffixed by the key field's year
\* rather than by its position
OutFldsByYear(keys, input) ==
    <<"geoname">> \o
    [i \in 1..Len(keys) |-> input.outFieldPattern \o "FY" \o LastChars(keys[i], 2)]

\* the output table fields: geoname, <pattern>CY, <pattern>FY1, <pattern>FY2, ...
OutFlds(keys, input) ==
    <<"geoname">> \o
    [i \in 1..Len(keys) |->
        IF i > 1 THEN input.outFieldPattern \o "FY" \o ToString(i - 1)
        ELSE input.outFieldPattern \o "CY"]

\* ato_df[[fld_geog] + weighted_flds].groupby(fld_geog).sum(): for each value
\* of the geography field, the sum of every weighted field over its rows
GroupWeights(df, fld_geog, wflds) ==
    [g \in {df.rows[i][fld_geog] : i \in 1..Len(df.rows)} |->
        [w \in Range(wflds) |->
            SumInts([j \in 1..Len(RowsWhere(df.rows, fld_geog, g)) |->
                        RowsWhere(df.rows, fld_geog, g)[j][w]])]]

\* ato_df.merge(weighted_df, left_on=fld_geog, right_on=fld_geog): every row,
\* in the order of ato_df, with its weighted fields as <w>_x and its group's
\* sums as <w>_y
MergeWeights(df, fld_geog, wflds) ==
    LET wdf == GroupWeights(df, fld_geog, wflds)
        lab == (Range(df.columns) \ Range(wflds))
                 \cup {w \o "_x" : w \in Range(wflds)}
                 \cup {w \o "_y" : w \in Range(wflds)}
        src(l) == SubSeq(l, 1, Len(l) - 2)
    IN [i \in 1..Len(df.rows) |->
          [l \in lab |->
             IF l \in Range(df.columns) \ Range(wflds) THEN df.rows[i][l]
             ELSE IF LastChars(l, 2) = "_x" THEN df.rows[i][src(l)]
             ELSE wdf[df.rows[i][fld_geog]][src(l)]]]

\* the weighted value as it would be without the zero test of line 142
WeightedValueNoGuard(k, x, y) == QMul(Q(k), QDiv(Q(x), Q(y)))

\* lines 142-146: the per-row weighted value of the per-field branch
WeightedValue(k, x, y) ==
    IF y # 0 THEN QMul(Q(k), QDiv(Q(x), Q(y))) ELSE Q(0)

\* lines 136-146: one row's value_list in the per-field branch
FieldValueList(row, fld_geog, keys, input) ==
    <<row[fld_geog]>> \o
    [j \in 1..Len(keys) |->
        LET yr == LastChars(keys[j], 2) IN
        WeightedValue(row[keys[j]],
                      row[input.weightedFieldPrefix \o yr \o "_x"],
                      row[input.weightedFieldPrefix \o yr \o "_y"])]

\* the per-field loop body raises KeyError when there is a row to compute and
\* a key field has no weighted field of the same two-digit suffix
FieldRaises(df, keys, wflds, input) ==
    /\ Len(df.rows) > 0
    /\ \E j \in 1..Len(keys) :
          (input.weightedFieldPrefix \o LastChars(keys[j], 2)) \notin Range(wflds)

\* lines 134-147: geog_list of the per-field branch
FieldGeogList(df, fld_geog, keys, wflds, input) ==
    LET merge_df == MergeWeights(df, fld_geog, wflds)
    IN [i \in 1..Len(merge_df) |-> FieldValueList(merge_df[i], fld_geog, keys, input)]

\* lines 151-153 and 183-186: the contribution of one geography
GeogFrame(geog_list, outs) ==
    GroupBySum(TitleColumn(FrameOfLists(geog_list, outs), "geoname"))

\* A geography area's query is a record [fld, op, vals]: op "in" selects the
\* rows whose fld is one of vals, "==" those whose fld equals vals[1], and
\* "self" is the always-true "fld==fld"
QueryHolds(query, row) ==
    CASE query.op = "in" -> row[query.fld] \in Range(query.vals)
      [] query.op = "==" -> row[query.fld] = query.vals[1]
      [] OTHER -> TRUE

\* the query as it would be if it selected every row
QueryRowsAll(df, query) == df.rows

\* ato_df.query(query)
QueryRows(df, query) == SelectSeq(df.rows, LAMBDA r : QueryHolds(query, r))

\* area_df[geog_weighted_flds].sum(numeric_only=True)
AreaWeights(area_rows, wflds) ==
    [w \in Range(wflds) |->
        SumInts([j \in 1..Len(area_rows) |-> area_rows[j][w]])]

\* the area value as it would be without the weight share of line 177
AreaValueUnweighted(k, x, sum_weighted_fld) == Q(k)

\* line 177: the per-row weighted value of the area branch (no zero test)
AreaValue(k, x, sum_weighted_fld) == QMul(Q(k), QDiv(Q(x), Q(sum_weighted_fld)))

\* lines 171-178: one row's value_list in the area branch
AreaValueList(row, geog_name, weighted_df, keys, input) ==
    <<geog_name>> \o
    [j \in 1..Len(keys) |->
        LET w == input.weightedFieldPrefix \o LastChars(keys[j], 2) IN
        AreaValue(row[keys[j]], row[w], weighted_df[w])]

\* lines 169-179: geog_list of the area branch
AreaGeogList(df, geog_area, keys, wflds, input) ==
    LET area_rows == QueryRows(df, geog_area.query)
        weighted_df == AreaWeights(area_rows, wflds)
    IN [i \in 1..Len(area_rows) |->
          AreaValueList(area_rows[i], geog_area.geogName, weighted_df, keys, input)]

AreaRaises(df, geog_area, keys, wflds, input) ==
    /\ Len(QueryRows(df, geog_area.query)) > 0
    /\ \E j \in 1..Len(keys) :
          (input.weightedFieldPrefix \o LastChars(keys[j], 2)) \notin Range(wflds)

-----------------------------------------------------------------------------
(* The inputs of main that the model draws from *)

WFRC ==
    [geogName |-> "Wasatch Front Regional Council Region",
     queryFields |-> <<"CO_FIPS">>,
     query |-> [fld |-> "CO_FIPS", op |-> "in", vals |-> <<3, 57, 11, 35>>]]

MAG ==
    [geogName |-> "Mountainland Association of Governments Region",
     queryFields |-> <<"CO_FIPS">>,
     query |-> [fld |-> "CO_FIPS", op |-> "==", vals |-> <<49>>]]

WFR ==
    [geogName |-> "Wasatch Front Region",
     queryFields |-> <<"CO_FIPS">>,
     query |-> [fld |-> "CO_FIPS", op |-> "self", vals |-> <<>>]]

\* inputs["Jobs By Auto"], with the geography fields and areas given
JobsByAuto(geogFields, geogAreas) ==
    [geogFields |-> geogFields,
     geogAreas |-> geogAreas,
     keyFieldPattern |-> [prefix |-> "JOBAUTO_", digits |-> 2],
     weightedFieldPattern |-> [prefix |-> "HH_", digits |-> 2],
     weightedFieldPrefix |-> "HH_",
     outFieldPattern |-> "weighted_ato_jobauto_"]

\* inputs["Jobs By Transit"] as it would be with the output pattern of
\* inputs["Jobs By Auto"]
JobsByTransitAsAuto(geogFields, geogAreas) ==
    [geogFields |-> geogFields,
     geogAreas |-> geogAreas,
     keyFieldPattern |-> [prefix |-> "JOBTRANSIT_", digits |-> 2],
     weightedFieldPattern |-> [prefix |-> "HH_", digits |-> 2],
     weightedFieldPrefix |-> "HH_",
     outFieldPattern |-> "weighted_ato_jobauto_"]

\* inputs["Jobs By Transit"]
JobsByTransit(geogFields, geogAreas) ==
    [geogFields |-> geogFields,
     geogAreas |-> geogAreas,
     keyFieldPattern |-> [prefix |-> "JOBTRANSIT_", digits |-> 2],
     weightedFieldPattern |-> [prefix |-> "HH_", digits |-> 2],
     weightedFieldPrefix |-> "HH_",
     outFieldPattern |-> "weighted_ato_jobtransit_"]

\* The layouts of the source table: the order of its columns
Layout(name) ==
    CASE name = "two years" ->
           <<"CITYAREA", "CO_FIPS", "JOBAUTO_21", "JOBAUTO_22", "HH_21", "HH_22">>
      [] name = "years reversed" ->
           <<"CITYAREA", "CO_FIPS", "JOBAUTO_22", "HH_22", "HH_21", "JOBAUTO_21">>
      [] name = "two fields" ->
           <<"CITYAREA", "SMALLAREA", "CO_FIPS", "JOBAUTO_21", "HH_21">>
      [] name = "no key field" ->
           <<"CITYAREA", "CO_FIPS", "JOBAUTO_2021", "HH_21">>
      [] name = "no weight for 22" ->
           <<"CITYAREA", "CO_FIPS", "JOBAUTO_21", "JOBAUTO_22", "HH_21">>

Layouts ==
    {"two years", "years reversed", "two fields", "no key field", "no weight for 22"}

AllColumns ==
    {"CITYAREA", "SMALLAREA", "CO_FIPS", "JOBAUTO_21", "JOBAUTO_22", "JOBAUTO_2021",
     "HH_21", "HH_22"}

\* The values of a row's key and weighted fields: jobs and households of two
\* years, <<JOBAUTO_21, HH_21, JOBAUTO_22, HH_22>>
Measures == {<<50, 100, 80, 200>>, <<20, 50, 40, 100>>, <<50, 0, 80, 100>>}

CityNames == {"ogden", "OGDEN"}

Fips == {3, 49}

SourceRow(city, fips, m) ==
    [c \in AllColumns |->
        CASE c = "CITYAREA" -> city
          [] c = "SMALLAREA" -> "Ogden"
          [] c = "CO_FIPS" -> fips
          [] c = "JOBAUTO_21" -> m[1]
          [] c = "JOBAUTO_2021" -> m[1]
          [] c = "HH_21" -> m[2]
          [] c = "JOBAUTO_22" -> m[3]
          [] c = "HH_22" -> m[4]]

SourceRows == {SourceRow(city, fips, m) : city \in CityNames, fips \in Fips, m \in Measures}

\* the source tables of a layout, of at most MaxRows rows
SourceTables(layout) ==
    LET rowsOf == {[c \in Range(Layout(layout)) |-> r[c]] : r \in SourceRows}
    IN {[index |-> "", columns |-> Layout(layout), rows |-> rows] :
           rows \in UNION {[1..n -> rowsOf] : n \in 0..MaxRows}}

\* the configurations the ratio aggregator is run with on a layout
RatioInputs(layout) ==
    CASE layout = "two years" ->
           {JobsByAuto(<<"CITYAREA">>, <<WFRC, MAG, WFR>>),
            JobsByAuto(<<>>, <<WFRC, MAG, WFR>>),
            JobsByAuto(<<>>, <<>>)}
      [] layout = "two fields" ->
           {JobsByAuto(<<"CITYAREA", "SMALLAREA">>, <<MAG>>)}
      [] OTHER -> {JobsByAuto(<<"CITYAREA">>, <<WFRC, MAG, WFR>>)}

-----------------------------------------------------------------------------
(* The state *)

VARIABLES
    pc,                  \* where the run is
    err,                 \* the exception that ended it, "" if none
    ato_df,              \* the source table of the metric being computed
    input,               \* the metric's configuration
    key_flds,
    weighted_flds,
    out_flds,
    fi,                  \* position of the per-field loop in input.geogFields
    ai,                  \* position of the area loop in input.geogAreas
    geog_weighted_flds,  \* <<>> while the name is unbound
    geog_name,           \* "" while the name is unbound
    geog_list,
    all_df_list,
    metric_df,
    output_df,
    merged,              \* the metric results handed to the Merge Step so far
    mi,                  \* position of main in its list of metrics
    rename_dict,         \* the rollup's output name of each key field
    upload_data,         \* main's toggle between the portal and the CSV file
    boundaries_sdf,      \* the Boundary Table, once fetched
    merged_df,           \* the joined table, once computed
    portal,              \* the items of the remote portal
    keeps_source,        \* whether publishing left its uploaded geodatabase item
    csv                  \* the tables written to the CSV file, in order

vars ==
    <<pc, err, ato_df, input, key_flds, weighted_flds, out_flds, fi, ai,
      geog_weighted_flds, geog_name, geog_list, all_df_list, metric_df,
      output_df, merged, mi, rename_dict, upload_data, boundaries_sdf, merged_df,
      portal, keeps_source, csv>>

sinkVars == <<upload_data, boundaries_sdf, merged_df, portal, keeps_source, csv>>

mainVars == <<output_df, merged, mi, sinkVars>>

aggVars ==
    <<ato_df, input, key_flds, weighted_flds, out_flds, fi, ai,
      geog_weighted_flds, geog_name, geog_list, all_df_list, rename_dict>>

-----------------------------------------------------------------------------
(* One invocation of metricJobsBy, statement by statement *)

NextPc(f, a) ==
    IF f <= Len(input.geogFields) THEN "fields"
    ELSE IF a <= Len(input.geogAreas) THEN "areas"
    ELSE "concat"

Raise(e) ==
    /\ pc' = "error"
    /\ err' = e

\* main has not run: nothing is merged, fetched, joined or emitted
MainIdle ==
    /\ output_df = EmptyFrame
    /\ merged = <<>>
    /\ mi = 1
    /\ upload_data = FALSE
    /\ boundaries_sdf = EmptyFrame
    /\ merged_df = EmptyFrame
    /\ portal = {}
    /\ keeps_source = FALSE
    /\ csv = <<>>

InitJobsBy ==
    /\ pc = "start"
    /\ err = ""
    /\ \E layout \in Layouts :
          /\ ato_df \in SourceTables(layout)
          /\ input \in RatioInputs(layout)
    /\ key_flds = <<>>
    /\ weighted_flds = <<>>
    /\ out_flds = <<>>
    /\ fi = 1
    /\ ai = 1
    /\ geog_weighted_flds = <<>>
    /\ geog_name = ""
    /\ geog_list = <<>>
    /\ all_df_list = <<>>
    /\ rename_dict = <<>>
    /\ metric_df = EmptyFrame
    /\ MainIdle

\* lines 84-118: the fields of the source table and of the output table
Setup ==
    /\ pc = "start"
    /\ IF Range(df_flds(ato_df, input)) \subseteq Range(ato_df.columns)
       THEN /\ ato_df' = SelectColumns(ato_df, df_flds(ato_df, input))
            /\ key_flds' = MatchingColumns(ato_df, input.keyFieldPattern)
            /\ weighted_flds' = MatchingColumns(ato_df, input.weightedFieldPattern)
            /\ out_flds' = OutFlds(key_flds', input)
            /\ pc' = NextPc(1, 1)
            /\ err' = err
       ELSE /\ Raise("KeyError")
            /\ UNCHANGED <<ato_df, key_flds, weighted_flds, out_flds>>
    /\ UNCHANGED <<input, fi, ai, geog_weighted_flds, geog_name, geog_list,
                   all_df_list, metric_df, rename_dict, mainVars>>

\* lines 121-155: one iteration of the loop over the geography fields
FieldStep ==
    /\ pc = "fields"
    /\ geog_weighted_flds' = <<input.geogFields[fi]>> \o weighted_flds
    /\ IF FieldRaises(ato_df, key_flds, weighted_flds, input)
       THEN /\ Raise("KeyError")
            /\ UNCHANGED <<fi, geog_list, all_df_list>>
       ELSE /\ geog_list' = FieldGeogList(ato_df, input.geogFields[fi], key_flds,
                                          weighted_flds, input)
            /\ all_df_list' = Append(all_df_list, GeogFrame(geog_list', out_flds))
            /\ fi' = fi + 1
            /\ pc' = NextPc(fi + 1, ai)
            /\ err' = err
    /\ UNCHANGED <<ato_df, input, key_flds, weighted_flds, out_flds, ai, geog_name,
                   metric_df, rename_dict, mainVars>>

\* lines 159-188: one iteration of the loop over the geography areas; line 166
\* reads geog_weighted_flds, which only the per-field loop binds
AreaStep ==
    /\ pc = "areas"
    /\ geog_name' = input.geogAreas[ai].geogName
    /\ IF geog_weighted_flds = <<>>
       THEN /\ Raise("NameError")
            /\ UNCHANGED <<ai, geog_list, all_df_list>>
       ELSE IF AreaRaises(ato_df, input.geogAreas[ai], key_flds,
                          Tail(geog_weighted_flds), input)
       THEN /\ Raise("KeyError")
            /\ UNCHANGED <<ai, geog_list, all_df_list>>
       ELSE /\ geog_list' = AreaGeogList(ato_df, input.geogAreas[ai], key_flds,
                                         Tail(geog_weighted_flds), input)
            /\ all_df_list' = Append(all_df_list, GeogFrame(geog_list', out_flds))
            /\ ai' = ai + 1
            /\ pc' = NextPc(fi, ai + 1)
            /\ err' = err
    /\ UNCHANGED <<ato_df, input, key_flds, weighted_flds, out_flds, fi,
                   geog_weighted_flds, metric_df, rename_dict, mainVars>>

\* lines 191-194: pd.concat raises ValueError on an empty list
ConcatStep ==
    /\ pc = "concat"
    /\ IF all_df_list = <<>>
       THEN /\ Raise("ValueError")
            /\ UNCHANGED metric_df
       ELSE /\ metric_df' = Concat(all_df_list)
            /\ pc' = "done"
            /\ err' = err
    /\ UNCHANGED <<aggVars, mainVars>>

NextJobsBy == Setup \/ FieldStep \/ AreaStep \/ ConcatStep

SpecJobsBy == InitJobsBy /\ [][NextJobsBy]_vars

-----------------------------------------------------------------------------
(* metricJobsBy as a whole: the table it returns, or the exception it raises *)

Returned(df) == [err |-> "", df |-> df]
Raised(e) == [err |-> e, df |-> EmptyFrame]

metricJobsBy(df, inp) ==
    LET flds == df_flds(df, inp)
        keys == MatchingColumns(df, inp.keyFieldPattern)
        wflds == MatchingColumns(df, inp.weightedFieldPattern)
        outs == OutFlds(keys, inp)
        narrowed == SelectColumns(df, flds)
        fieldFrames ==
            [f \in 1..Len(inp.geogFields) |->
                GeogFrame(FieldGeogList(narrowed, inp.geogFields[f], keys, wflds, inp),
                          outs)]
        areaFrames ==
            [a \in 1..Len(inp.geogAreas) |->
                GeogFrame(AreaGeogList(narrowed, inp.geogAreas[a], keys, wflds, inp),
                          outs)]
    IN IF ~(Range(flds) \subseteq Range(df.columns)) THEN Raised("KeyError")
       ELSE IF Len(inp.geogFields) > 0 /\ FieldRaises(narrowed, keys, wflds, inp)
            THEN Raised("KeyError")
       ELSE IF Len(inp.geogFields) = 0 /\ Len(inp.geogAreas) > 0
            THEN Raised("NameError")
       ELSE IF \E a \in 1..Len(inp.geogAreas) :
                  AreaRaises(narrowed, inp.geogAreas[a], keys, wflds, inp)
            THEN Raised("KeyError")
       ELSE IF Len(inp.geogFields) + Len(inp.geogAreas) = 0 THEN Raised("ValueError")
       ELSE Returned(Concat(fieldFrames \o areaFrames))

-----------------------------------------------------------------------------
(* metricEstimatesProjections: the Rollup Aggregator *)

\* the output names as they would be with a two-character suffix
RenameDictShort(keys, inp) ==
    [k \in Range(keys) |-> inp.outFieldPattern \o LastChars(k, 2)]

\* rename_dict: a key field's output name
RenameDict(keys, inp) ==
    [k \in Range(keys) |-> inp.outFieldPattern \o LastChars(k, 4)]

\* the aggregation as it would be if every operator summed
AggregateSum(vals, how) == Q(SumInts(vals))

\* the aggregation of a non-empty group's values: "sum" or "mean"
Aggregate(vals, how) ==
    IF how = "mean" THEN Norm(SumInts(vals), Len(vals)) ELSE Q(SumInts(vals))

\* the aggregated key fields of a group of rows, under their output names
RollupRow(rows, geoname, keys, inp) ==
    [c \in {"geoname"} \cup {RenameDict(keys, inp)[k] : k \in Range(keys)} |->
        IF c = "geoname" THEN geoname
        ELSE LET k == CHOOSE k \in Range(keys) : RenameDict(keys, inp)[k] = c
             IN Aggregate([j \in 1..Len(rows) |-> rows[j][k]], inp.aggregation)]

\* lines 230-255: the contribution of one geography field: one row per exact
\* value of the field, in ascending order, its geoname title-cased afterwards
RollupFieldFrame(df, fld_geog, keys, inp) ==
    LET values == SortStrings({df.rows[i][fld_geog] : i \in 1..Len(df.rows)})
    IN [index |-> fld_geog,
        columns |-> <<"geoname">> \o [j \in 1..Len(keys) |-> RenameDict(keys, inp)[keys[j]]],
        rows |-> [n \in 1..Len(values) |->
                    RollupRow(RowsWhere(df.rows, fld_geog, values[n]),
                              Title(values[n]), keys, inp)]]

\* lines 258-282: the contribution of one geography area: the rows the query
\* selects, aggregated as one group
RollupAreaFrame(df, geog_area, keys, inp) ==
    LET area_rows == QueryRows(df, geog_area.query)
    IN [index |-> "geoname",
        columns |-> [j \in 1..Len(keys) |-> RenameDict(keys, inp)[keys[j]]] \o <<"geoname">>,
        rows |-> IF area_rows = <<>> THEN <<>>
                 ELSE <<RollupRow(area_rows, Title(geog_area.geogName), keys, inp)>>]

metricEstimatesProjections(df, inp) ==
    LET keys == MatchingColumns(df, inp.keyFieldPattern)
        flds == AppendNew(inp.geogFields, QueryFields(inp)) \o keys
        narrowed == SelectColumns(df, flds)
        fieldFrames ==
            [f \in 1..Len(inp.geogFields) |->
                RollupFieldFrame(narrowed, inp.geogFields[f], keys, inp)]
        areaFrames ==
            [a \in 1..Len(inp.geogAreas) |->
                RollupAreaFrame(narrowed, inp.geogAreas[a], keys, inp)]
    IN IF ~(Range(flds) \subseteq Range(df.columns)) THEN Raised("KeyError")
       ELSE IF Len(inp.geogFields) + Len(inp.geogAreas) = 0 THEN Raised("ValueError")
       ELSE Returned(Concat(fieldFrames \o areaFrames))

-----------------------------------------------------------------------------
(* mergeMetricDataframes: the Merge Step *)

GeoNames(df) == {df.rows[i]["geoname"] : i \in 1..Len(df.rows)}

ValueColumns(df) == Range(df.columns) \ {"geoname"}

\* the merge as it would be if it refused a frame without value columns
MergeRaisesWithoutValues(left, right) ==
    IF \E df \in {left, right} : Range(df.columns) \ {"geoname"} = {}
    THEN "ValueError"
    ELSE ""

\* merge(on="geoname") raises KeyError when a frame has no geoname, and
\* ValueError when geoname is both an index level and a column of a frame
MergeRaises(left, right) ==
    IF \E df \in {left, right} : df.index # "geoname" /\ "geoname" \notin Range(df.columns)
    THEN "KeyError"
    ELSE IF \E df \in {left, right} : df.index = "geoname" /\ "geoname" \in Range(df.columns)
    THEN "ValueError"
    ELSE ""

\* left.merge(right, how="outer", on="geoname"): for every geoname of either
\* frame, in ascending order, every pairing of its left rows with its right
\* rows; a frame without the geoname contributes null for its columns.  A
\* column of both frames is suffixed _x and _y.  geoname stays the index only
\* when it is the index of both frames.
OuterMerge(left, right) ==
    LET both == ValueColumns(left) \cap ValueColumns(right)
        lname(c) == IF c \in both THEN c \o "_x" ELSE c
        rname(c) == IF c \in both THEN c \o "_y" ELSE c
        lcols == SelectSeq(left.columns, LAMBDA c : c # "geoname")
        rcols == SelectSeq(right.columns, LAMBDA c : c # "geoname")
        lnames == {lname(c) : c \in Range(lcols)}
        rnames == {rname(c) : c \in Range(rcols)}
        keys == SortStrings(GeoNames(left) \cup GeoNames(right))
        nulls(cols) == [c \in Range(cols) |-> Null]
        lrows(k) == IF k \in GeoNames(left) THEN RowsWhere(left.rows, "geoname", k)
                    ELSE <<nulls(lcols)>>
        rrows(k) == IF k \in GeoNames(right) THEN RowsWhere(right.rows, "geoname", k)
                    ELSE <<nulls(rcols)>>
        joined(k, l, r) ==
            [c \in {"geoname"} \cup lnames \cup rnames |->
                IF c = "geoname" THEN k
                ELSE IF c \in lnames
                     THEN l[CHOOSE x \in Range(lcols) : lname(x) = c]
                     ELSE r[CHOOSE x \in Range(rcols) : rname(x) = c]]
        pairs(k) ==
            [p \in 1..(Len(lrows(k)) * Len(rrows(k))) |->
                joined(k, lrows(k)[((p - 1) \div Len(rrows(k))) + 1],
                          rrows(k)[((p - 1) % Len(rrows(k))) + 1])]
        keyIsIndex == left.index = "geoname" /\ right.index = "geoname"
    IN [index |-> IF keyIsIndex THEN "geoname" ELSE "",
        columns |-> (IF keyIsIndex THEN <<>> ELSE <<"geoname">>)
                      \o [j \in 1..Len(lcols) |-> lname(lcols[j])]
                      \o [j \in 1..Len(rcols) |-> rname(rcols[j])],
        rows |-> Flatten([n \in 1..Len(keys) |-> pairs(keys[n])])]

\* lines 70-77
mergeMetricDataframes(output, metric) ==
    IF ~IsEmpty(output) THEN OuterMerge(output, metric) ELSE metric

-----------------------------------------------------------------------------
(* main: the metrics are computed and merged one at a time, in list order *)

\* inputs["Population Estimates"]
PopulationEstimates(geogFields, geogAreas) ==
    [geogFields |-> geogFields,
     geogAreas |-> geogAreas,
     aggregation |-> "sum",
     keyFieldPattern |-> [prefix |-> "YEAR", digits |-> 4],
     outFieldPattern |-> "pop_proj_"]

\* main's list of metrics to run
metrics ==
    <<"Jobs By Auto",
      "Jobs By Transit",
      "Population Estimates",
      "Household Estimates",
      "Households with Access to Transit",
      "Households with Access to Trails 5min",
      "Households with Access to Trails 10min",
      "Households with Access to Parks 5min",
      "Households with Access to Parks 10min",
      "Population within Centers",
      "Housing Costs",
      "Transportation Costs",
      "Housing + Transportation Costs",
      "Commuters that Drive Alone",
      "Commuters that use Public Transportation",
      "Commuters that Work From Home",
      "Median Income",
      "Persons below Poverty Level",
      "Aggregate Travel Time for Commuters",
      "Median Age",
      "Persons with Education of Bachelors Degree">>

\* the metrics main hands to metricJobsBy; the others go to
\* metricEstimatesProjections
RatioMetrics == {"Jobs By Auto", "Jobs By Transit"}

\* inputs[metric]["outFieldPattern"]
OutFieldPatternOf(metric) ==
    CASE metric = "Jobs By Auto" -> JobsByAuto(<<>>, <<>>).outFieldPattern
      [] metric = "Jobs By Transit" -> JobsByTransit(<<>>, <<>>).outFieldPattern
      [] metric = "Population Estimates" -> PopulationEstimates(<<>>, <<>>).outFieldPattern
      [] metric = "Household Estimates" -> "hh_proj_"
      [] metric = "Households with Access to Transit" -> "hh_20min_walk_transit_"
      [] metric = "Households with Access to Trails 5min" -> "hh_5min_walk_trail_"
      [] metric = "Households with Access to Trails 10min" -> "hh_10min_walk_trail_"
      [] metric = "Households with Access to Parks 5min" -> "hh_5min_walk_parks_"
      [] metric = "Households with Access to Parks 10min" -> "hh_10min_walk_parks_"
      [] metric = "Population within Centers" -> "pop_within_centers_"
      [] metric = "Housing Costs" -> "h_ami_"
      [] metric = "Transportation Costs" -> "t_ami_"
      [] metric = "Housing + Transportation Costs" -> "ht_ami_"
      [] metric = "Commuters that Drive Alone" -> "commuters_drive_alone_"
      [] metric = "Commuters that use Public Transportation" -> "commuters_public_tranport_"
      [] metric = "Commuters that Work From Home" -> "commuters_work_home_"
      [] metric = "Median Income" -> "median_income_"
      [] metric = "Persons below Poverty Level" -> "persons_below_poverty_"
      [] metric = "Aggregate Travel Time for Commuters" -> "commuter_travel_time_"
      [] metric = "Median Age" -> "median_age_"
      [] metric = "Persons with Education of Bachelors Degree" -> "persons_with_bachelors_"

\* the prefix of inputs[metric]["keyFieldPattern"], which ends in [0-9]{2}
\* for the ratio metrics and in [0-9]{4} for the others
KeyFieldPrefixOf(metric) ==
    CASE metric = "Jobs By Auto" -> JobsByAuto(<<>>, <<>>).keyFieldPattern.prefix
      [] metric = "Jobs By Transit" -> JobsByTransit(<<>>, <<>>).keyFieldPattern.prefix
      [] metric = "Population Estimates" -> "YEAR"
      [] metric = "Household Estimates" -> "YEAR"
      [] metric \in {"Households with Access to Transit",
                     "Households with Access to Trails 5min",
                     "Households with Access to Trails 10min",
                     "Households with Access to Parks 5min",
                     "Households with Access to Parks 10min"} -> "HH_"
      [] metric = "Population within Centers" -> "POP_"
      [] metric = "Housing Costs" -> "h_ami_"
      [] metric = "Transportation Costs" -> "t_ami_"
      [] metric = "Housing + Transportation Costs" -> "ht_ami_"
      [] OTHER -> "ACS5_"

\* the metrics of main's list that the model runs
RunList == <<"Jobs By Auto", "Jobs By Transit", "Population Estimates">>

MetricInput(metric) ==
    CASE metric = "Jobs By Auto" -> JobsByAuto(<<"CITYAREA">>, <<MAG>>)
      [] metric = "Jobs By Transit" -> JobsByTransit(<<"CITYAREA">>, <<MAG>>)
      [] metric = "Population Estimates" -> PopulationEstimates(<<"CityArea">>, <<MAG>>)

\* the layouts of the table fetched for a metric; the last column of a ratio
\* layout is the weighted field
FetchLayouts(metric) ==
    CASE metric = "Jobs By Auto" ->
           {<<"CITYAREA", "CO_FIPS", "JOBAUTO_21", "HH_21">>,
            <<"CITYAREA", "CO_FIPS", "JOBAUTO_2021", "HH_21">>}
      [] metric = "Jobs By Transit" ->
           {<<"CITYAREA", "CO_FIPS", "JOBTRANSIT_21", "HH_21">>}
      [] metric = "Population Estimates" ->
           {<<"CityArea", "CO_FIPS", "YEAR2020", "OBJECTID">>}

\* the rows of a fetched table: <<geography, CO_FIPS, key value, weight>>
FetchedRows == {<<"ogden", 3, 50, 100>>, <<"OGDEN", 49, 0, 50>>, <<"roy", 49, 20, 0>>}

\* the tables of a layout, of at most MaxRows rows
TablesOf(layout) ==
    LET rowsOf == {[c \in Range(layout) |-> r[IndexOf(layout, c, 1)]] : r \in FetchedRows}
    IN {[index |-> "", columns |-> layout, rows |-> rows] :
           rows \in UNION {[1..n -> rowsOf] : n \in 0..MaxRows}}

\* the tables the feature layer of a metric may hold
FetchedTables(metric) == UNION {TablesOf(layout) : layout \in FetchLayouts(metric)}

\* output_item["newItemTitle"]
NewItemTitle == "WFRC_PerformanceMetrics"

\* An item of the portal: its id, type, title and the table it holds
Item(id, type, title, data) ==
    [id |-> id, type |-> type, title |-> title, data |-> data]

\* the items of another title the portal holds
OtherItems ==
    {Item(3, "Feature Service", "WFRC_PerformanceMetrics_2023", EmptyFrame)}

\* The content of the portal before a run that publishes: the items of another
\* title, and possibly a Feature Service and a File Geodatabase of the new
\* item's title
PortalStates ==
    {OtherItems \cup S :
        S \in SUBSET {Item(1, "Feature Service", NewItemTitle, EmptyFrame),
                      Item(2, "File Geodatabase", NewItemTitle, EmptyFrame)}}

\* lines 826 and 834: the items of a type whose title is exactly the new title
ItemsFound(content, type) ==
    {i \in content : i.type = type /\ i.title = NewItemTitle}

\* an id no item of the content has
FreshId(content) ==
    IF content = {} THEN 1
    ELSE 1 + (CHOOSE m \in {i.id : i \in content} : \A i \in content : i.id <= m)

\* the publish as it would be if a Feature Service were created every time
PublishCreating(content, table, g, f, keeps) ==
    LET gdb_found == ItemsFound(content, "File Geodatabase")
        deleted == IF gdb_found # {} THEN content \ {g} ELSE content
        written == deleted \cup {Item(FreshId(content), "Feature Service",
                                      NewItemTitle, table)}
    IN IF keeps
       THEN written \cup {Item(FreshId(content) + 1, "File Geodatabase",
                               NewItemTitle, table)}
       ELSE written

\* lines 823-844 for one choice of the items the searches list first: the
\* found File Geodatabase g is deleted; the found Feature Service f is
\* overwritten in place, or a Feature Service is created when none is found
PublishWith(content, table, g, f, keeps) ==
    LET gdb_found == ItemsFound(content, "File Geodatabase")
        items_found == ItemsFound(content, "Feature Service")
        deleted == IF gdb_found # {} THEN content \ {g} ELSE content
        written ==
            IF items_found # {}
            THEN (deleted \ {f}) \cup {[f EXCEPT !.data = table]}
            ELSE deleted \cup {Item(FreshId(content), "Feature Service",
                                    NewItemTitle, table)}
    IN IF keeps
       THEN written \cup {Item(FreshId(content) + 1, "File Geodatabase",
                               NewItemTitle, table)}
       ELSE written

\* the contents lines 823-844 can leave
PublishOutcomes(content, table, keeps) ==
    LET gdb_found == ItemsFound(content, "File Geodatabase")
        items_found == ItemsFound(content, "Feature Service")
        gs == IF gdb_found = {} THEN {Item(0, "", "", EmptyFrame)} ELSE gdb_found
        fs == IF items_found = {} THEN {Item(0, "", "", EmptyFrame)} ELSE items_found
    IN {PublishWith(content, table, g, f, keeps) : g \in gs, f \in fs}

\* The names of the Boundary Table
BoundaryNames ==
    <<"Ogden", "OGDEN", "Mountainland Association of Governments Region">>

BoundaryColumns == <<"GeoName", "GeoType", "Shape__Area", "Shape__Length">>

BoundaryRow(name) ==
    [c \in Range(BoundaryColumns) |-> IF c = "GeoName" THEN name ELSE "-"]

\* the Boundary Tables the feature layer may hold, of at most MaxRows rows:
\* the rows of some names, in the order of BoundaryNames
BoundaryTables ==
    {[index |-> "", columns |-> BoundaryColumns,
      rows |-> [i \in 1..Len(names) |-> BoundaryRow(names[i])]] :
        names \in {SelectSeq(BoundaryNames, LAMBDA n : n \in S) :
                      S \in {X \in SUBSET Range(BoundaryNames) : Cardinality(X) <= MaxRows}}}

\* pd.merge(how="inner", left_on="GeoName", right_on="geoname") raises
\* KeyError when right has no geoname, and ValueError when geoname is both an
\* index level and a column of right
JoinRaises(right) ==
    IF right.index # "geoname" /\ "geoname" \notin Range(right.columns) THEN "KeyError"
    ELSE IF right.index = "geoname" /\ "geoname" \in Range(right.columns) THEN "ValueError"
    ELSE ""

\* the join as it would be if names were compared up to letter case
InnerJoinFolded(left, right) ==
    LET matches(l) ==
            SelectSeq(right.rows, LAMBDA r : Title(r["geoname"]) = Title(l["GeoName"]))
        joined(l, r) ==
            [c \in Range(left.columns) \cup Range(right.columns) |->
                IF c \in Range(left.columns) THEN l[c] ELSE r[c]]
    IN [index |-> "",
        columns |-> left.columns \o right.columns,
        rows |-> Flatten([i \in 1..Len(left.rows) |->
                            [j \in 1..Len(matches(left.rows[i])) |->
                                joined(left.rows[i], matches(left.rows[i])[j])]])]

\* pd.merge(left, right, how="inner", left_on="GeoName", right_on="geoname"):
\* in the order of the left rows, every pairing of a left row with a right
\* row whose geoname equals its GeoName
InnerJoin(left, right) ==
    LET matches(l) == RowsWhere(right.rows, "geoname", l["GeoName"])
        joined(l, r) ==
            [c \in Range(left.columns) \cup Range(right.columns) |->
                IF c \in Range(left.columns) THEN l[c] ELSE r[c]]
    IN [index |-> "",
        columns |-> left.columns \o right.columns,
        rows |-> Flatten([i \in 1..Len(left.rows) |->
                            [j \in 1..Len(matches(left.rows[i])) |->
                                joined(left.rows[i], matches(left.rows[i])[j])]])]

\* df.drop(columns=cols)
DropColumns(df, cols) ==
    LET kept == SelectSeq(df.columns, LAMBDA c : c \notin cols)
    IN [index |-> df.index,
        columns |-> kept,
        rows |-> [i \in 1..Len(df.rows) |-> [c \in Range(kept) |-> df.rows[i][c]]]]

\* main before its first metric block.  upload_data is either value of the
\* toggle of line 295; the searches of lines 826 and 834 are the only reads of
\* the portal's items, so a run that does not upload starts from the content
\* without an item of the new title or from the one with both
InitMain ==
    /\ pc = "metrics"
    /\ err = ""
    /\ ato_df = EmptyFrame
    /\ input = MetricInput(RunList[1])
    /\ key_flds = <<>>
    /\ weighted_flds = <<>>
    /\ out_flds = <<>>
    /\ fi = 1
    /\ ai = 1
    /\ geog_weighted_flds = <<>>
    /\ geog_name = ""
    /\ geog_list = <<>>
    /\ all_df_list = <<>>
    /\ rename_dict = <<>>
    /\ metric_df = EmptyFrame
    /\ output_df = EmptyFrame
    /\ merged = <<>>
    /\ mi = 1
    /\ upload_data \in BOOLEAN
    /\ boundaries_sdf = EmptyFrame
    /\ merged_df = EmptyFrame
    /\ portal \in (IF upload_data THEN PortalStates
                   ELSE {OtherItems, UNION PortalStates})
    /\ keeps_source = FALSE
    /\ csv = <<>>

\* what main does with the table an aggregator returned, or with its exception
MergeReturned(result) ==
    IF result.err # "" THEN /\ Raise(result.err)
                            /\ UNCHANGED <<metric_df, output_df, merged, mi>>
    ELSE IF ~IsEmpty(output_df) /\ MergeRaises(output_df, result.df) # ""
    THEN /\ Raise(MergeRaises(output_df, result.df))
         /\ metric_df' = result.df
         /\ UNCHANGED <<output_df, merged, mi>>
    ELSE /\ metric_df' = result.df
         /\ output_df' = mergeMetricDataframes(output_df, result.df)
         /\ merged' = Append(merged, result.df)
         /\ mi' = mi + 1
         /\ pc' = IF mi < Len(RunList) THEN "metrics" ELSE "join"
         /\ err' = err

\* lines 646-658: a ratio metric is fetched, aggregated and merged
RunRatioMetric ==
    /\ pc = "metrics"
    /\ RunList[mi] \in {"Jobs By Auto", "Jobs By Transit"}
    /\ \E table \in FetchedTables(RunList[mi]) :
          /\ ato_df' = table
          /\ MergeReturned(metricJobsBy(table, MetricInput(RunList[mi])))
    /\ input' = MetricInput(RunList[mi])
    /\ UNCHANGED <<key_flds, weighted_flds, out_flds, fi, ai,
                   geog_weighted_flds, geog_name, geog_list, all_df_list,
                   rename_dict, sinkVars>>

\* lines 660-805: a rollup metric is fetched, aggregated and merged
RunRollupMetric ==
    /\ pc = "metrics"
    /\ RunList[mi] \notin {"Jobs By Auto", "Jobs By Transit"}
    /\ \E table \in FetchedTables(RunList[mi]) :
          /\ ato_df' = table
          /\ MergeReturned(metricEstimatesProjections(table, MetricInput(RunList[mi])))
    /\ input' = MetricInput(RunList[mi])
    /\ UNCHANGED <<key_flds, weighted_flds, out_flds, fi, ai,
                   geog_weighted_flds, geog_name, geog_list, all_df_list,
                   rename_dict, sinkVars>>

\* the failed fetch as it would be if main went on to the boundary join
MetricFetchSkipped ==
    /\ pc = "metrics"
    /\ pc' = "join"
    /\ UNCHANGED <<err, aggVars, metric_df, mainVars>>

\* a fetch of a metric's feature layer fails: the exception leaves main
MetricFetchFails ==
    /\ pc = "metrics"
    /\ Raise("FetchError")
    /\ UNCHANGED <<aggVars, metric_df, mainVars>>

\* lines 809-820: the Boundary Table is fetched and joined to the merged
\* output; the fetch may fail
JoinBoundaries ==
    /\ pc = "join"
    /\ \/ /\ Raise("FetchError")
          /\ UNCHANGED <<boundaries_sdf, merged_df>>
       \/ \E table \in BoundaryTables :
             /\ boundaries_sdf' = table
             /\ IF JoinRaises(output_df) # ""
                THEN /\ Raise(JoinRaises(output_df))
                     /\ UNCHANGED merged_df
                ELSE /\ merged_df' = DropColumns(InnerJoin(table, output_df),
                                                 {"Shape__Area", "Shape__Length"})
                     /\ pc' = "emit"
                     /\ err' = err
    /\ UNCHANGED <<aggVars, metric_df, output_df, merged, mi, upload_data, portal,
                   keeps_source, csv>>

\* lines 823-844: the joined table is published to the portal; whether the
\* library leaves the geodatabase it uploaded is either outcome
Publish ==
    /\ pc = "emit"
    /\ upload_data = TRUE
    /\ \E keeps \in BOOLEAN :
          /\ keeps_source' = keeps
          /\ portal' \in PublishOutcomes(portal, merged_df, keeps)
    /\ pc' = "done"
    /\ UNCHANGED <<err, aggVars, metric_df, output_df, merged, mi, upload_data,
                   boundaries_sdf, merged_df, csv>>

\* the CSV write as it would be without the test of upload_data
WriteCsvAlways ==
    /\ pc = "emit"
    /\ csv' = Append(csv, merged_df)
    /\ pc' = "done"
    /\ UNCHANGED <<err, aggVars, metric_df, output_df, merged, mi, upload_data,
                   boundaries_sdf, merged_df, portal, keeps_source>>

\* lines 846-847: the joined table is written to the CSV file
WriteCsv ==
    /\ pc = "emit"
    /\ upload_data = FALSE
    /\ csv' = Append(csv, merged_df)
    /\ pc' = "done"
    /\ UNCHANGED <<err, aggVars, metric_df, output_df, merged, mi, upload_data,
                   boundaries_sdf, merged_df, portal, keeps_source>>

NextMain ==
    \/ RunRatioMetric
    \/ RunRollupMetric
    \/ MetricFetchFails
    \/ JoinBoundaries
    \/ Publish
    \/ WriteCsv

SpecMain == InitMain /\ [][NextMain]_vars

-----------------------------------------------------------------------------
(* One invocation of metricEstimatesProjections, statement by statement *)

\* inputs["Housing Costs"], with the geography fields and areas given
HousingCosts(geogFields, geogAreas) ==
    [geogFields |-> geogFields,
     geogAreas |-> geogAreas,
     aggregation |-> "mean",
     keyFieldPattern |-> [prefix |-> "h_ami_", digits |-> 4],
     outFieldPattern |-> "h_ami_"]

\* The layouts of the rollup's source table: the order of its columns
RollupLayout(name) ==
    CASE name = "population" ->
           <<"CityArea", "CO_FIPS", "YEAR2020", "YEAR2030", "OBJECTID">>
      [] name = "costs" ->
           <<"OBJECTID", "CityArea", "CO_FIPS", "h_ami_2020">>
      [] name = "two fields" ->
           <<"CityArea", "CO_NAME", "CO_FIPS", "YEAR2020">>

RollupLayouts == {"population", "costs", "two fields"}

RollupColumns ==
    {"CityArea", "CO_NAME", "CO_FIPS", "YEAR2020", "YEAR2030", "h_ami_2020",
     "OBJECTID"}

\* The values of a row's key fields: <<YEAR2020 or h_ami_2020, YEAR2030>>
RollupMeasures == {<<100, 10>>, <<300, 25>>}

RollupSourceRow(city, fips, m) ==
    [c \in RollupColumns |->
        CASE c = "CityArea" -> city
          [] c = "CO_NAME" -> "WEBER"
          [] c = "CO_FIPS" -> fips
          [] c = "YEAR2020" -> m[1]
          [] c = "h_ami_2020" -> m[1]
          [] c = "YEAR2030" -> m[2]
          [] c = "OBJECTID" -> 7]

RollupSourceRows ==
    {RollupSourceRow(city, fips, m) :
        city \in CityNames, fips \in Fips, m \in RollupMeasures}

\* the source tables of a layout, of at most MaxRows rows
RollupSourceTables(layout) ==
    LET rowsOf == {[c \in Range(RollupLayout(layout)) |-> r[c]] : r \in RollupSourceRows}
    IN {[index |-> "", columns |-> RollupLayout(layout), rows |-> rows] :
           rows \in UNION {[1..n -> rowsOf] : n \in 0..MaxRows}}

\* the configurations the rollup aggregator is run with on a layout
RollupInputs(layout) ==
    CASE layout = "population" ->
           {PopulationEstimates(<<"CityArea">>, <<WFRC, MAG, WFR>>),
            PopulationEstimates(<<>>, <<MAG>>),
            PopulationEstimates(<<>>, <<>>)}
      [] layout = "costs" ->
           {HousingCosts(<<"CityArea">>, <<WFRC, MAG, WFR>>)}
      [] layout = "two fields" ->
           {PopulationEstimates(<<"CityArea", "CO_NAME">>, <<MAG>>),
            PopulationEstimates(<<"CityArea", "SUBAREA">>, <<MAG>>)}

RollupNextPc(f, a) ==
    IF f <= Len(input.geogFields) THEN "rollup fields"
    ELSE IF a <= Len(input.geogAreas) THEN "rollup areas"
    ELSE "rollup concat"

\* df[col] = values, one value per row: a new column is added last
SetColumn(df, col, values) ==
    [index |-> df.index,
     columns |-> IF col \in Range(df.columns) THEN df.columns
                 ELSE Append(df.columns, col),
     rows |-> [i \in 1..Len(df.rows) |->
                 [c \in Range(df.columns) \cup {col} |->
                     IF c = col THEN values[i] ELSE df.rows[i][c]]]]

InitRollup ==
    /\ pc = "rollup start"
    /\ err = ""
    /\ \E layout \in RollupLayouts :
          /\ ato_df \in RollupSourceTables(layout)
          /\ input \in RollupInputs(layout)
    /\ key_flds = <<>>
    /\ weighted_flds = <<>>
    /\ out_flds = <<>>
    /\ fi = 1
    /\ ai = 1
    /\ geog_weighted_flds = <<>>
    /\ geog_name = ""
    /\ geog_list = <<>>
    /\ all_df_list = <<>>
    /\ rename_dict = <<>>
    /\ metric_df = EmptyFrame
    /\ MainIdle

\* lines 199-227: the fields of the source table and the output names
RollupSetup ==
    /\ pc = "rollup start"
    /\ LET keys == MatchingColumns(ato_df, input.keyFieldPattern)
           flds == AppendNew(input.geogFields, QueryFields(input)) \o keys
       IN IF Range(flds) \subseteq Range(ato_df.columns)
          THEN /\ ato_df' = SelectColumns(ato_df, flds)
               /\ key_flds' = keys
               /\ rename_dict' = RenameDict(keys, input)
               /\ pc' = RollupNextPc(1, 1)
               /\ err' = err
          ELSE /\ Raise("KeyError")
               /\ UNCHANGED <<ato_df, key_flds, rename_dict>>
    /\ UNCHANGED <<input, weighted_flds, out_flds, fi, ai, geog_weighted_flds,
                   geog_name, geog_list, all_df_list, metric_df, mainVars>>

\* lines 230-255: one iteration of the loop over the geography fields
RollupFieldStep ==
    /\ pc = "rollup fields"
    /\ ato_df' = SetColumn(ato_df, "geoname",
                            [i \in 1..Len(ato_df.rows) |->
                                ato_df.rows[i][input.geogFields[fi]]])
    /\ all_df_list' = Append(all_df_list,
                             RollupFieldFrame(ato_df', input.geogFields[fi],
                                              key_flds, input))
    /\ fi' = fi + 1
    /\ pc' = RollupNextPc(fi + 1, ai)
    /\ UNCHANGED <<err, input, key_flds, weighted_flds, out_flds, ai,
                   geog_weighted_flds, geog_name, geog_list, rename_dict,
                   metric_df, mainVars>>

\* lines 258-282: one iteration of the loop over the geography areas
RollupAreaStep ==
    /\ pc = "rollup areas"
    /\ geog_name' = input.geogAreas[ai].geogName
    /\ ato_df' = SetColumn(ato_df, "geoname",
                            [i \in 1..Len(ato_df.rows) |-> geog_name'])
    /\ all_df_list' = Append(all_df_list,
                             RollupAreaFrame(ato_df', input.geogAreas[ai],
                                             key_flds, input))
    /\ ai' = ai + 1
    /\ pc' = RollupNextPc(fi, ai + 1)
    /\ UNCHANGED <<err, input, key_flds, weighted_flds, out_flds, fi,
                   geog_weighted_flds, geog_list, rename_dict, metric_df, mainVars>>

\* lines 286-289: pd.concat raises ValueError on an empty list
RollupConcatStep ==
    /\ pc = "rollup concat"
    /\ IF all_df_list = <<>>
       THEN /\ Raise("ValueError")
            /\ UNCHANGED metric_df
       ELSE /\ metric_df' = Concat(all_df_list)
            /\ pc' = "done"
            /\ err' = err
    /\ UNCHANGED <<aggVars, mainVars>>

NextRollup == RollupSetup \/ RollupFieldStep \/ RollupAreaStep \/ RollupConcatStep

SpecRollup == InitRollup /\ [][NextRollup]_vars

-----------------------------------------------------------------------------
(* main's metric blocks on layers whose key column may have been renamed *)

\* the layouts of the table fetched for a metric: the layout its key pattern
\* expects, and one whose key column carries another name
RenamedLayouts(metric) ==
    CASE metric = "Jobs By Auto" ->
           {<<"CITYAREA", "CO_FIPS", "JOBAUTO_21", "HH_21">>,
            <<"CITYAREA", "CO_FIPS", "JOBAUTO_2021", "HH_21">>}
      [] metric = "Jobs By Transit" ->
           {<<"CITYAREA", "CO_FIPS", "JOBTRANSIT_21", "HH_21">>,
            <<"CITYAREA", "CO_FIPS", "JOBTRANSIT_2021", "HH_21">>}
      [] metric = "Population Estimates" ->
           {<<"CityArea", "CO_FIPS", "YEAR2020", "OBJECTID">>,
            <<"CityArea", "CO_FIPS", "YEAR20", "OBJECTID">>}

\* the rows of such a table: <<geography, CO_FIPS, key value, weight>>
RenamedRows == {<<"ogden", 3, 50, 100>>, <<"roy", 49, 20, 50>>}

\* the tables the feature layer of a metric may hold, of at most MaxRows rows
RenamedTables(metric) ==
    UNION {LET rowsOf == {[c \in Range(layout) |-> r[IndexOf(layout, c, 1)]] :
                             r \in RenamedRows}
           IN {[index |-> "", columns |-> layout, rows |-> rows] :
                  rows \in UNION {[1..n -> rowsOf] : n \in 0..MaxRows}} :
           layout \in RenamedLayouts(metric)}

\* main before its first metric block, nothing emitted
InitRenamed ==
    /\ pc = "metrics"
    /\ err = ""
    /\ ato_df = EmptyFrame
    /\ input = MetricInput(RunList[1])
    /\ key_flds = <<>>
    /\ weighted_flds = <<>>
    /\ out_flds = <<>>
    /\ fi = 1
    /\ ai = 1
    /\ geog_weighted_flds = <<>>
    /\ geog_name = ""
    /\ geog_list = <<>>
    /\ all_df_list = <<>>
    /\ rename_dict = <<>>
    /\ metric_df = EmptyFrame
    /\ MainIdle

\* lines 646-658: a ratio metric is fetched, aggregated and merged
RunRatioRenamed ==
    /\ pc = "metrics"
    /\ RunList[mi] \in {"Jobs By Auto", "Jobs By Transit"}
    /\ \E table \in RenamedTables(RunList[mi]) :
          /\ ato_df' = table
          /\ MergeReturned(metricJobsBy(table, MetricInput(RunList[mi])))
    /\ input' = MetricInput(RunList[mi])
    /\ UNCHANGED <<key_flds, weighted_flds, out_flds, fi, ai,
                   geog_weighted_flds, geog_name, geog_list, all_df_list,
                   rename_dict, sinkVars>>

\* lines 660-805: a rollup metric is fetched, aggregated and merged
RunRollupRenamed ==
    /\ pc = "metrics"
    /\ RunList[mi] \notin {"Jobs By Auto", "Jobs By Transit"}
    /\ \E table \in RenamedTables(RunList[mi]) :
          /\ ato_df' = table
          /\ MergeReturned(metricEstimatesProjections(table, MetricInput(RunList[mi])))
    /\ input' = MetricInput(RunList[mi])
    /\ UNCHANGED <<key_flds, weighted_flds, out_flds, fi, ai,
                   geog_weighted_flds, geog_name, geog_list, all_df_list,
                   rename_dict, sinkVars>>

NextRenamed == RunRatioRenamed \/ RunRollupRenamed

SpecRenamed == InitRenamed /\ [][NextRenamed]_vars

-----------------------------------------------------------------------------
(* What the ratio aggregator is expected to compute, stated on the source rows *)

RECURSIVE SumFn(_)
\* the sum of the values of a function with a finite domain
SumFn(f) ==
    IF DOMAIN f = {} THEN 0
    ELSE LET i == CHOOSE i \in DOMAIN f : TRUE
         IN f[i] + SumFn([r \in DOMAIN f \ {i} |-> f[r]])

\* the number v is the ratio num/den (den # 0)
IsRatio(v, num, den) == v[2] > 0 /\ v[1] * den = num * v[2]

SourceIdx == 1..Len(ato_df.rows)

\* the weighted field paired with a key field by its two-digit suffix
PairedWeight(k) == input.weightedFieldPrefix \o LastChars(k, 2)

\* geog_list holds the value lists of the last geography field processed
FieldListState ==
    /\ pc \in {"fields", "areas", "concat", "done"}
    /\ geog_weighted_flds # <<>>
    /\ geog_name = ""

LastField == geog_weighted_flds[1]

\* the rows of row i's geography-field group, and the group's weight
GroupOf(i) ==
    {r \in SourceIdx : ato_df.rows[r][LastField] = ato_df.rows[i][LastField]}

GroupWeight(i, w) == SumFn([r \in GroupOf(i) |-> ato_df.rows[r][w]])

\* C1: in the per-field branch, the weighted value of row i for key field k is
\* 0 when the weight y of the row's geography-field group is 0, and
\* k * (x / y) otherwise, x being the row's own weight
C1_PerRowWeightedValue ==
    FieldListState =>
        /\ Len(geog_list) = Len(ato_df.rows)
        /\ \A i \in SourceIdx : \A j \in 1..Len(key_flds) :
              LET k == ato_df.rows[i][key_flds[j]]
                  x == ato_df.rows[i][PairedWeight(key_flds[j])]
                  y == GroupWeight(i, PairedWeight(key_flds[j]))
              IN IF y = 0 THEN geog_list[i][j + 1] = <<0, 1>>
                 ELSE IsRatio(geog_list[i][j + 1], k * x, y)

\* a row whose group has weight 0 for one year and of which it holds a proper
\* share for another
C1_Witness ==
    /\ FieldListState
    /\ \E i \in SourceIdx : \E j1, j2 \in 1..Len(key_flds) :
          /\ GroupWeight(i, PairedWeight(key_flds[j1])) = 0
          /\ geog_list[i][j1 + 1] = <<0, 1>>
          /\ GroupWeight(i, PairedWeight(key_flds[j2])) = 200
          /\ ato_df.rows[i][PairedWeight(key_flds[j2])] = 100
          /\ geog_list[i][j2 + 1] = <<40, 1>>

\* the rows whose geography-field value is g up to letter case
CaseFoldedGroup(g) == {r \in SourceIdx : Title(ato_df.rows[r][LastField]) = Title(g)}

\* C2: rows whose geography-field values differ only in letter case form one
\* weight group, so that the title-cased output row is the weight-share sum
\* over all of them (the statement of the claim; the code groups the weights
\* by the exact value)
C2_CaseFoldedWeightGroup ==
    FieldListState =>
        \A n \in 1..Len(all_df_list[Len(all_df_list)].rows) :
        \A j \in 1..Len(key_flds) :
            LET o == all_df_list[Len(all_df_list)].rows[n]
                G == CaseFoldedGroup(o["geoname"])
                w == PairedWeight(key_flds[j])
                Y == SumFn([r \in G |-> ato_df.rows[r][w]])
                N == SumFn([r \in G |-> ato_df.rows[r][key_flds[j]] * ato_df.rows[r][w]])
            IN IF Y = 0 THEN o[out_flds[j + 1]] = <<0, 1>>
               ELSE IsRatio(o[out_flds[j + 1]], N, Y)

\* geog_list holds the value lists of the last geography area processed
AreaListState ==
    /\ pc \in {"areas", "concat", "done"}
    /\ geog_name # ""

\* the filters of the areas configured in main
InArea(row) ==
    CASE geog_name = "Wasatch Front Regional Council Region" ->
           row["CO_FIPS"] \in {3, 57, 11, 35}
      [] geog_name = "Mountainland Association of Governments Region" ->
           row["CO_FIPS"] = 49
      [] geog_name = "Wasatch Front Region" -> TRUE

\* the label main's areas are emitted under
AreaLabel ==
    CASE geog_name = "Wasatch Front Regional Council Region" ->
           "Wasatch Front Regional Council Region"
      [] geog_name = "Mountainland Association of Governments Region" ->
           "Mountainland Association Of Governments Region"
      [] geog_name = "Wasatch Front Region" -> "Wasatch Front Region"

AreaIdx == {r \in SourceIdx : InArea(ato_df.rows[r])}

AreaWeight(w) == SumFn([r \in AreaIdx |-> ato_df.rows[r][w]])

\* sum over the area's rows of k * w
AreaNumerator(k, w) == SumFn([r \in AreaIdx |-> ato_df.rows[r][k] * ato_df.rows[r][w]])

\* C3: in the area branch, if the weighted field sums to zero over the area's
\* rows, every row's weighted value for the paired key field is zero (the
\* statement of the claim; line 177 divides without testing the sum)
C3_ZeroAreaWeightGivesZero ==
    AreaListState =>
        \A j \in 1..Len(key_flds) :
            AreaWeight(PairedWeight(key_flds[j])) = 0 =>
                \A i \in 1..Len(geog_list) : geog_list[i][j + 1] = <<0, 1>>

\* C4: an area whose filter selects a non-empty set R of rows contributes one
\* row, labelled with the area's (title-cased) name, that holds for each key
\* field k of non-zero total weight the sum over R of k * (w / sum of w over R)
C4_AreaRollup ==
    AreaListState /\ AreaIdx # {} =>
        LET geog_df == all_df_list[Len(all_df_list)]
        IN /\ Len(geog_df.rows) = 1
           /\ geog_df.rows[1]["geoname"] = AreaLabel
           /\ \A j \in 1..Len(key_flds) :
                 LET w == PairedWeight(key_flds[j])
                 IN AreaWeight(w) # 0 =>
                       IsRatio(geog_df.rows[1][out_flds[j + 1]],
                               AreaNumerator(key_flds[j], w), AreaWeight(w))

\* an area of two rows of different weights: 50 * (100/150) + 20 * (50/150)
C4_Witness ==
    /\ AreaListState
    /\ Cardinality(AreaIdx) = 2
    /\ \E j \in 1..Len(key_flds) :
          /\ AreaWeight(PairedWeight(key_flds[j])) = 150
          /\ AreaNumerator(key_flds[j], PairedWeight(key_flds[j])) = 6000
          /\ all_df_list[Len(all_df_list)].rows[1][out_flds[j + 1]] = <<40, 1>>

\* C5: no two rows of the table an aggregator returns carry the same geoname
\* (the statement of the claim; the contributions are concatenated as they are)
C5_GeonameIsKey ==
    pc # "error" =>
        \A a, b \in 1..Len(metric_df.rows) :
            a # b => metric_df.rows[a]["geoname"] # metric_df.rows[b]["geoname"]

\* the name of the n-th output column of the ratio aggregator
ExpectedOutName(n) ==
    input.outFieldPattern \o
        (IF n = 1 THEN "CY" ELSE "FY" \o SubSeq("123456789", n - 1, n - 1))

\* the columns of the source table that are key fields, in column order
MatchedKeys == SelectSeq(ato_df.columns, LAMBDA c : ReMatch(input.keyFieldPattern, c))

\* C10: the first matched key field is emitted as <outFieldPattern>CY and the
\* n-th one after it as <outFieldPattern>FY<n>, whatever its year; the output
\* has exactly these columns plus geoname
C10_OutputNaming ==
    pc = "done" =>
        /\ Len(metric_df.columns) = Len(MatchedKeys)
        /\ \A n \in 1..Len(MatchedKeys) : metric_df.columns[n] = ExpectedOutName(n)
        /\ \A r \in 1..Len(metric_df.rows) :
              DOMAIN metric_df.rows[r] =
                  {"geoname"} \cup {ExpectedOutName(n) : n \in 1..Len(MatchedKeys)}
        /\ AreaListState /\ AreaIdx # {} =>
              \A n \in 1..Len(MatchedKeys) :
                 LET w == PairedWeight(MatchedKeys[n])
                 IN AreaWeight(w) # 0 =>
                       IsRatio(metric_df.rows[Len(metric_df.rows)][ExpectedOutName(n)],
                               AreaNumerator(MatchedKeys[n], w), AreaWeight(w))

\* a finished run whose first key field in column order is the later year
C10_Witness ==
    /\ pc = "done"
    /\ MatchedKeys = <<"JOBAUTO_22", "JOBAUTO_21">>
    /\ AreaListState
    /\ AreaIdx # {}
    /\ metric_df.rows[Len(metric_df.rows)]["weighted_ato_jobauto_CY"] = <<40, 1>>
    /\ metric_df.rows[Len(metric_df.rows)]["weighted_ato_jobauto_FY1"] = <<20, 1>>

-----------------------------------------------------------------------------
(* What the Merge Step is expected to maintain *)

RECURSIVE JoinAll(_)
\* m1 outer-joined with m2, ..., mk on geoname, for k >= 1
JoinAll(ms) ==
    IF Len(ms) = 1 THEN ms[1]
    ELSE OuterMerge(JoinAll(SubSeq(ms, 1, Len(ms) - 1)), ms[Len(ms)])

RECURSIVE MergeAll(_)
\* the accumulator after mergeMetricDataframes has been given ms in order
MergeAll(ms) ==
    IF ms = <<>> THEN EmptyFrame
    ELSE mergeMetricDataframes(MergeAll(SubSeq(ms, 1, Len(ms) - 1)), ms[Len(ms)])

Orders(n) ==
    {p \in [1..n -> 1..n] : \A i, j \in 1..n : p[i] = p[j] => i = j}

RowSet(df) == Range(df.rows)

\* C6: after m1..mk have been merged, the accumulator is m1 outer-joined with
\* m2, ..., mk and has the columns of every one of them (the statement of the
\* claim; the code takes an empty accumulator for "nothing merged yet")
C6_AccumulatorIsOuterJoin ==
    pc # "error" /\ Len(merged) >= 1 =>
        /\ output_df = JoinAll(merged)
        /\ \A i \in 1..Len(merged) :
              ValueColumns(merged[i]) \subseteq ValueColumns(output_df)

\* C7: the geography names of the accumulator are the union of those of the
\* metric results merged so far (the statement of the claim)
C7_NamesAreUnion ==
    pc # "error" =>
        GeoNames(output_df) = UNION {GeoNames(merged[i]) : i \in 1..Len(merged)}

\* C8: a geography that does not occur in a merged metric's result has null in
\* every column of that metric, in each of its rows of the accumulator (the
\* statement of the claim)
C8_MissingIsNull ==
    pc # "error" =>
        \A i \in 1..Len(merged) : \A n \in 1..Len(output_df.rows) :
            output_df.rows[n]["geoname"] \notin GeoNames(merged[i]) =>
                \A c \in ValueColumns(merged[i]) :
                    /\ c \in DOMAIN output_df.rows[n]
                    /\ output_df.rows[n][c] = Null

\* C9: merging the same metric results in any other order gives the same set
\* of rows (the statement of the claim)
C9_OrderIndependent ==
    pc # "error" =>
        \A p \in Orders(Len(merged)) :
            RowSet(MergeAll([i \in 1..Len(merged) |-> merged[p[i]]])) = RowSet(output_df)

-----------------------------------------------------------------------------
(* What the rollup aggregator is expected to compute, stated on the source rows *)

\* the geography fields processed so far, by position
FieldsDone == 1..(fi - 1)

RollupRunning ==
    pc \in {"rollup fields", "rollup areas", "rollup concat", "done"}

\* the distinct values of a geography field, and a value's rank among them
FieldValues(fld) == {ato_df.rows[r][fld] : r \in SourceIdx}

RankOf(v, fld) == 1 + Cardinality({u \in FieldValues(fld) : StrLess(u, v)})

\* the rows holding value v in a geography field, and the total of a key field
\* over a set of rows
RowsOf(v, fld) == {r \in SourceIdx : ato_df.rows[r][fld] = v}

TotalOver(idx, k) == SumFn([r \in idx |-> ato_df.rows[r][k]])

\* a key field's column in the rollup's output
RollupOutName(k) == input.outFieldPattern \o LastChars(k, 4)

\* the number v is the aggregate (sum or mean) of key field k over the rows idx
IsAggregateOf(v, idx, k) ==
    IF input.aggregation = "mean" THEN IsRatio(v, TotalOver(idx, k), Cardinality(idx))
    ELSE v = <<TotalOver(idx, k), 1>>

\* C11: in the per-field branch of the rollup, each group of rows sharing a
\* geography-field value yields one row, and its value for each matched key
\* field is the sum over the group's rows when the operator is sum and their
\* unweighted arithmetic mean when it is mean
C11_GroupSumOrMean ==
    RollupRunning =>
        \A f \in FieldsDone :
            LET fld == input.geogFields[f]
                frame == all_df_list[f]
            IN /\ Len(frame.rows) = Cardinality(FieldValues(fld))
               /\ \A v \in FieldValues(fld) : \A j \in 1..Len(key_flds) :
                     IsAggregateOf(frame.rows[RankOf(v, fld)][RollupOutName(key_flds[j])],
                                   RowsOf(v, fld), key_flds[j])

\* the operator is mean and a group of two rows, 100 and 300, yields 200
C11_Witness ==
    /\ RollupRunning
    /\ input.aggregation = "mean"
    /\ FieldsDone = {1}
    /\ Len(ato_df.rows) = 2
    /\ ato_df.rows[1]["CityArea"] = ato_df.rows[2]["CityArea"]
    /\ ato_df.rows[1]["h_ami_2020"] = 100
    /\ ato_df.rows[2]["h_ami_2020"] = 300
    /\ Len(all_df_list[1].rows) = 1
    /\ all_df_list[1].rows[1]["h_ami_2020"] = <<200, 1>>

\* the columns of the source table that match the key-field pattern
MatchedKeyFields == {c \in Range(ato_df.columns) : ReMatch(input.keyFieldPattern, c)}

\* the labels a rollup contribution is expected to carry
RollupLabels == {"geoname"} \cup {RollupOutName(k) : k \in MatchedKeyFields}

HasRollupLabels(frame) ==
    /\ Range(frame.columns) = RollupLabels
    /\ Len(frame.columns) = Cardinality(RollupLabels)
    /\ \A n \in 1..Len(frame.rows) : DOMAIN frame.rows[n] = RollupLabels

\* C12: every contribution of the rollup, per field or per area, and the table
\* it returns have exactly the columns geoname and, for each matched key
\* field, outFieldPattern followed by the field's last four characters
C12_RollupColumns ==
    RollupRunning =>
        /\ \A n \in 1..Len(all_df_list) : HasRollupLabels(all_df_list[n])
        /\ pc = "done" => HasRollupLabels(metric_df)

\* a returned table of one geography field and three areas: two renamed key
\* fields, and neither the geography field nor the query field of the source
C12_Witness ==
    /\ pc = "done"
    /\ Len(input.geogFields) = 1
    /\ Len(all_df_list) = 4
    /\ {"CityArea", "CO_FIPS", "YEAR2020", "YEAR2030"} \subseteq Range(ato_df.columns)
    /\ metric_df.columns = <<"geoname", "pop_proj_2020", "pop_proj_2030">>
    /\ Len(all_df_list[1].rows) > 0
    /\ Len(all_df_list[4].rows) > 0
    /\ Len(metric_df.rows) >= 2

\* the last frame of all_df_list is the contribution of the area geog_name
RollupAreaState ==
    /\ pc \in {"rollup areas", "rollup concat", "done"}
    /\ geog_name # ""

LastFrame == all_df_list[Len(all_df_list)]

\* C13: in the area branch of the rollup, the rows the area's predicate
\* selects are aggregated as one group: no row when none is selected, and
\* otherwise exactly one row, labelled with the (title-cased) name of the area
\* and holding the aggregate of each key field over exactly the selected rows
C13_AreaIsOneGroup ==
    RollupAreaState =>
        /\ Len(LastFrame.rows) <= 1
        /\ Len(LastFrame.rows) = 1 <=> AreaIdx # {}
        /\ AreaIdx # {} =>
              /\ LastFrame.rows[1]["geoname"] = AreaLabel
              /\ \A j \in 1..Len(key_flds) :
                    IsAggregateOf(LastFrame.rows[1][RollupOutName(key_flds[j])],
                                  AreaIdx, key_flds[j])

\* of two rows only the one of county 49 is in the Mountainland area: its row
\* holds that row's values alone
C13_Witness ==
    /\ RollupAreaState
    /\ geog_name = "Mountainland Association of Governments Region"
    /\ Len(ato_df.rows) = 2
    /\ ato_df.rows[1]["CO_FIPS"] = 3
    /\ ato_df.rows[2]["CO_FIPS"] = 49
    /\ "YEAR2020" \in Range(ato_df.columns)
    /\ ato_df.rows[1]["YEAR2020"] = 100
    /\ ato_df.rows[2]["YEAR2020"] = 300
    /\ Len(LastFrame.rows) = 1
    /\ LastFrame.rows[1]["geoname"] = "Mountainland Association Of Governments Region"
    /\ LastFrame.rows[1]["pop_proj_2020"] = <<300, 1>>

\* an aggregator has just processed the area geog_name, or failed doing so
AreaProcessed ==
    /\ geog_name # ""
    /\ pc \in {"areas", "rollup areas", "concat", "rollup concat", "done", "error"}

\* C14: an area whose filter selects no row contributes no row and raises no
\* error (the statement of the claim; in metricJobsBy the area loop raises
\* NameError whenever no geography field is configured, see C22)
C14_EmptyAreaContributesNothing ==
    AreaProcessed /\ AreaIdx = {} =>
        /\ pc # "error"
        /\ LastFrame.rows = <<>>

-----------------------------------------------------------------------------
(* Geography names of the returned tables *)

\* metric_df is the table an aggregator returned for ato_df and input: at the
\* end of one invocation, or in main after a metric block and until the
\* boundary join (the later steps change neither metric_df nor merged)
MetricReturned ==
    \/ pc = "done" /\ merged = <<>>
    \/ pc \in {"metrics", "join"} /\ Len(merged) >= 1

\* the names the source gives: the values of the configured geography fields
\* and the names of the configured areas
SourceNames ==
    {ato_df.rows[r][input.geogFields[f]] :
        r \in SourceIdx, f \in 1..Len(input.geogFields)}
      \cup {input.geogAreas[a].geogName : a \in 1..Len(input.geogAreas)}

\* C15: every geography name of a returned table, of either aggregator, is the
\* title-casing of a geography-field value or of an area name of its source,
\* and title-casing it again leaves it unchanged; so are the names of every
\* result merged so far
C15_NamesAreTitleCase ==
    MetricReturned =>
        /\ \A n \in GeoNames(metric_df) :
              /\ \E s \in SourceNames : n = Title(s)
              /\ Title(n) = n
        /\ \A i \in 1..Len(merged) : \A n \in GeoNames(merged[i]) : Title(n) = n

\* the rollup metric has returned "Ogden" for the source value "OGDEN" and the
\* title-cased name of the Mountainland area, after a ratio metric returned
\* "Ogden" as well
C15_Witness ==
    /\ MetricReturned
    /\ mi = 4
    /\ \E r \in SourceIdx : ato_df.rows[r]["CityArea"] = "OGDEN"
    /\ "ogden" \notin SourceNames
    /\ {"Ogden", "Mountainland Association Of Governments Region"}
          \subseteq GeoNames(metric_df)
    /\ "Ogden" \in GeoNames(merged[1])

-----------------------------------------------------------------------------
(* The Publish Step: boundary join and emit *)

\* the boundary join has been computed
Joined == pc \in {"emit", "done"}

FetchedBoundaryNames ==
    {boundaries_sdf.rows[i]["GeoName"] : i \in 1..Len(boundaries_sdf.rows)}

JoinedNames == {merged_df.rows[n]["GeoName"] : n \in 1..Len(merged_df.rows)}

\* how many rows of a sequence hold value v under label col
CountWhere(rows, col, v) == Cardinality({i \in 1..Len(rows) : rows[i][col] = v})

AllMetricsMerged == mi = Len(RunList) + 1 /\ Len(merged) = Len(RunList)

\* C17: the boundary join and the emit happen only after every metric of the
\* run list has been merged, the metrics being merged one at a time in list
\* order; once a fetch, an aggregation or a merge has failed the run takes no
\* further step, so that no CSV file is written and the portal is untouched
C17_EmitOnlyAfterAllMetrics ==
    /\ []((pc \in {"join", "emit", "done"} \/ boundaries_sdf # EmptyFrame
              \/ merged_df # EmptyFrame \/ csv # <<>>) => AllMetricsMerged)
    /\ [](pc = "error" => csv = <<>>)
    /\ [][pc # "error"]_vars
    /\ [][(portal' # portal \/ csv' # csv) =>
              pc = "emit" /\ err = "" /\ AllMetricsMerged]_vars
    /\ [][mi' # mi =>
              /\ mi' = mi + 1
              /\ Len(merged') = mi
              /\ merged'[mi] = metric_df'
              /\ input' = MetricInput(RunList[mi])]_vars

\* a completed run: three metrics merged, then the joined table written
C17_Witness ==
    /\ pc = "done"
    /\ AllMetricsMerged
    /\ Len(merged_df.rows) > 0
    /\ csv = <<merged_df>>

-----------------------------------------------------------------------------
(* Output columns of the configured metrics *)

\* year suffixes of key fields, and positions of future years, to name the
\* output columns with
YearSuffixes == {"2019", "2020", "2023", "2050"}

FuturePositions == 1..3

\* the output columns a metric of main's list can produce
ColumnsOf(metric) ==
    IF metric \in RatioMetrics
    THEN {OutFieldPatternOf(metric) \o "CY"}
           \cup {OutFieldPatternOf(metric) \o "FY" \o ToString(n) : n \in FuturePositions}
    ELSE {OutFieldPatternOf(metric) \o LastChars(KeyFieldPrefixOf(metric) \o y, 4) :
             y \in YearSuffixes}

PatternsDistinct ==
    \A i, j \in 1..Len(metrics) :
        i # j => OutFieldPatternOf(metrics[i]) # OutFieldPatternOf(metrics[j])

ColumnsDisjoint ==
    \A i, j \in 1..Len(metrics) :
        i # j => ColumnsOf(metrics[i]) \cap ColumnsOf(metrics[j]) = {}

\* C18: the output patterns of the metrics of main's list are pairwise
\* distinct and no two metrics can produce the same output column; in a run,
\* the results merged so far have pairwise disjoint value columns, and every
\* column of the merged output is the column of one of them under its own name
C18_ColumnsNeverCollide ==
    /\ PatternsDistinct
    /\ ColumnsDisjoint
    /\ pc # "error" =>
          /\ \A i, j \in 1..Len(merged) :
                i # j => ValueColumns(merged[i]) \cap ValueColumns(merged[j]) = {}
          /\ Len(output_df.columns) = Cardinality(Range(output_df.columns))
          /\ ValueColumns(output_df)
                \subseteq UNION {ValueColumns(merged[i]) : i \in 1..Len(merged)}

\* three metrics merged, each with its own column in the merged output
C18_Witness ==
    /\ pc = "join"
    /\ Len(merged) = 3
    /\ {"weighted_ato_jobauto_CY", "weighted_ato_jobtransit_CY", "pop_proj_2020"}
          \subseteq Range(output_df.columns)
    /\ Len(output_df.rows) > 0

\* a step of main that publishes the joined table to the portal
PublishStep == pc = "emit" /\ upload_data = TRUE /\ pc' = "done"

\* what the portal holds, item ids aside
Holdings(content) == {<<i.type, i.title, i.data>> : i \in content}

ServiceIds(content) == {i.id : i \in ItemsFound(content, "Feature Service")}

SameItems(a, b) ==
    /\ Holdings(a) = Holdings(b)
    /\ Cardinality(a) = Cardinality(b)
    /\ ServiceIds(a) = ServiceIds(b)

\* C19: a publish step, from a portal with at most one Feature Service and one
\* File Geodatabase of the new title, leaves exactly one Feature Service of
\* that title, holding the joined table: the existing one under its id, or
\* else a new one; the pre-existing File Geodatabase of that title is gone and
\* items of other titles are untouched; publishing the same table again
\* leaves the same items (the id of a re-uploaded File Geodatabase aside)
C19_PublishIdempotentByName ==
    [][PublishStep =>
          /\ Cardinality(ItemsFound(portal', "Feature Service")) = 1
          /\ \A s \in ItemsFound(portal', "Feature Service") : s.data = merged_df
          /\ ItemsFound(portal, "Feature Service") # {} =>
                ServiceIds(portal') = ServiceIds(portal)
          /\ ItemsFound(portal, "Feature Service") = {} =>
                ServiceIds(portal') \cap {i.id : i \in portal} = {}
          /\ ItemsFound(portal, "File Geodatabase") \cap portal' = {}
          /\ {i \in portal' : i.title # NewItemTitle}
                = {i \in portal : i.title # NewItemTitle}
          /\ \A again \in PublishOutcomes(portal', merged_df, keeps_source') :
                SameItems(again, portal')]_vars

\* published over an existing Feature Service and File Geodatabase: the
\* service keeps its id 1 and holds the joined table, the geodatabase is gone
C19_Witness ==
    /\ pc = "done"
    /\ upload_data = TRUE
    /\ keeps_source = FALSE
    /\ Len(merged_df.rows) > 0
    /\ ItemsFound(portal, "Feature Service")
          = {Item(1, "Feature Service", NewItemTitle, merged_df)}
    /\ ItemsFound(portal, "File Geodatabase") = {}
    /\ Cardinality(portal) = 2

\* C20: a completed run has used exactly one sink.  With upload_data False no
\* step changes the portal and the run ends with the joined table written
\* once to the CSV file; with upload_data True no step writes the CSV file and
\* the run ends with the joined table in the portal's Feature Service
C20_ExactlyOneSink ==
    /\ [][upload_data' = upload_data]_vars
    /\ [][upload_data = FALSE => portal' = portal]_vars
    /\ [][upload_data = TRUE => csv' = csv]_vars
    /\ [](pc = "done" =>
            IF upload_data
            THEN /\ csv = <<>>
                 /\ \E s \in ItemsFound(portal, "Feature Service") : s.data = merged_df
            ELSE csv = <<merged_df>>)

\* a run without upload has ended: the CSV file holds the joined table and the
\* portal still holds its old Feature Service and File Geodatabase
C20_Witness ==
    /\ pc = "done"
    /\ upload_data = FALSE
    /\ Len(merged_df.rows) > 0
    /\ csv = <<merged_df>>
    /\ portal \in PortalStates
    /\ Cardinality(portal) = 3

-----------------------------------------------------------------------------
(* A key pattern that matches no column of the source table *)

\* the last metric block has fetched ato_df and run its aggregator on it
BlockRan == Len(merged) >= 1 \/ pc = "error"

\* no column of the fetched table matches the metric's key pattern
NoKeyMatch == MatchingColumns(ato_df, input.keyFieldPattern) = <<>>

\* the names a result is expected to carry: the title-cased values of the
\* geography fields and the title-cased names of the areas that select a row
NamesWithRows ==
    {Title(ato_df.rows[r][input.geogFields[f]]) :
        r \in SourceIdx, f \in 1..Len(input.geogFields)}
      \cup {Title(input.geogAreas[a].geogName) :
              a \in {b \in 1..Len(input.geogAreas) :
                        QueryRows(ato_df, input.geogAreas[b].query) # <<>>}}

-----------------------------------------------------------------------------
(* The area loop of metricJobsBy and the configured geography fields *)

\* the area loop has started on an area: geog_name is assigned at line 160
AreaEntered == geog_name # "" /\ pc \in {"areas", "concat", "done", "error"}

\* the contribution of an area as computed from the source rows, the area's
\* filter and the key and weighted fields alone
AreaContribution(geog_area) ==
    GeogFrame(AreaGeogList(ato_df, geog_area, key_flds, weighted_flds, input),
              out_flds)

\* C22: once the area loop of metricJobsBy has started on an area, no
\* NameError is raised, whatever the configured geography fields, and the
\* frame a completed iteration appends is the one computed from the source
\* rows, the area's filter and the key and weighted fields (the statement of
\* the claim; line 166 reads geog_weighted_flds, which is bound only inside
\* the loop over the geography fields)
C22_AreaIndependentOfFields ==
    AreaEntered =>
        /\ err # "NameError"
        /\ pc # "error" => LastFrame = AreaContribution(input.geogAreas[ai - 1])

-----------------------------------------------------------------------------
(* The years behind the CY and FY columns *)

\* Python's key_fld[-2:], the two-digit year of a key field
YearOf(k) == LastChars(k, 2)

\* the matched key field with n - 1 matched key fields of an earlier year
KeyOfRank(n) ==
    CHOOSE k \in Range(MatchedKeys) :
        Cardinality({j \in Range(MatchedKeys) : StrLess(YearOf(j), YearOf(k))}) = n - 1

\* C23: in the table metricJobsBy returns, <outFieldPattern>CY holds the values
\* of the matched key field of the earliest year and <outFieldPattern>FY<n> those
\* of the n-th year after it, in whatever order the source table has its
\* columns (the statement of the claim; lines 98 and 109-114 follow the order
\* of the columns).  Stated on the row of the last area
C23_CurrentYearIsEarliest ==
    pc = "done" /\ AreaListState /\ AreaIdx # {} =>
        \A n \in 1..Len(MatchedKeys) :
           LET k == KeyOfRank(n)
               w == PairedWeight(k)
           IN AreaWeight(w) # 0 =>
                 IsRatio(metric_df.rows[Len(metric_df.rows)][ExpectedOutName(n)],
                         AreaNumerator(k, w), AreaWeight(w))

=============================================================================
